---- MODULE Spec2Model ----
(***************************************************************************)
(* Sign-Bridge: the hand-sign recognition core of ModelViewer.jsx and the  *)
(* ISLClassifier wrapper around the KNN classifier.                        *)
(*                                                                         *)
(* State: the React state of ModelViewer (isTraining, trainingState,       *)
(* countdown, activeLabel, trainingCounts, recogStatus,                    *)
(* isCameraReady), the refs mirrored from it by the sync effect, the       *)
(* timers created by startTrainingSession, the classifier dataset, the     *)
(* 'isl-model' entry of localStorage, and the pending classifier.predict   *)
(* call of the frame handler.                                              *)
(*                                                                         *)
(* Numbers: a confidence is an integer in thousandths (0.8 is 800).        *)
(* A feature vector has FeatureLen = 2 * 3 * NumLandmarks entries; the     *)
(* tracker's 21 landmarks per hand are scaled down to NumLandmarks.        *)
(***************************************************************************)
EXTENDS Integers, Sequences, FiniteSets, TLC

VARIABLES
    mounted,          \* the mount effects of ModelViewer have run
    isOpen,           \* prop isOpen (Meeting's isModelViewerOpen)
    hasListener,      \* prop onHandSignDetected is given
    isCameraReady,
    isTraining,
    trainingState,
    countdown,
    activeLabel,
    isTrainingRef,
    trainingStateRef,
    activeLabelRef,
    timers,           \* pending setInterval / setTimeout of startTrainingSession
    dataset,          \* the classifier's dataset: label -> sequence of examples
    storage,          \* localStorage['isl-model']
    trainingCounts,
    recogStatus,
    predictCall,      \* the classifier.predict call of the frame being handled
    events,           \* onHandSignDetected calls, in order
    framesHandled,
    crashed,          \* an exception left an effect uncaught: the viewer is torn down
    consoleError,     \* the last console.error of a caught load failure
    probe,            \* bookkeeping of the classifier-only specifications
    meetingCode,      \* Lobby: the text of the meeting-code field
    inMeeting,        \* App: the Meeting is shown instead of the Lobby
    meetingId,        \* App: the code onJoinMeeting was called with
    countsAlias,      \* whose object the trainingCounts state is (see GetClassExampleCount)
    isCaptionsOn,     \* Meeting: captions button
    transcript,       \* Meeting: the caption text
    recognitions,     \* Meeting: the SpeechRecognition objects created so far
    silenceTimer,     \* Meeting: timeoutRef holds a pending 3000 ms timeout
    detectedSign,     \* Meeting: the sign the avatar plays
    speechSupported,  \* window.SpeechRecognition || window.webkitSpeechRecognition
    isCameraOn,
    isModelLoaded,    \* handposeModelRef.current is set
    estimating,       \* detect calls awaiting estimateHands
    scheduled,        \* detect calls waiting for their animation frame
    requestRef,       \* requestRef.current is the id of a frame still waiting
    lastGestureTime,
    now,              \* Date.now(), in ms
    helloCalls,       \* the values of Date.now() at the setDetectedSign('Hello') calls of detect
    signTimers,       \* due times of the pending setDetectedSign(null) timeouts
    isScreenSharing,
    localTrack,       \* README Meeting: the video track of localStreamRef.current
    outgoingTrack,    \* README Meeting: the track of the call's video sender
    pendingDisplay,   \* toggleScreenShare calls awaiting getDisplayMedia
    pendingCamera,    \* toggleScreenShare calls awaiting getUserMedia
    orphanScreens,    \* screen tracks taken out of the stream, still capturing
    displayRequests,  \* getDisplayMedia calls made so far
    captionTimers     \* due times of the pending setTranscript('') timeouts

lobbyVars == <<meetingCode, inMeeting, meetingId>>

gestureVarsButNow ==
    <<isCameraOn, isModelLoaded, estimating, scheduled, requestRef,
      lastGestureTime, helloCalls, signTimers>>

gestureVars ==
    <<isCameraOn, isModelLoaded, estimating, scheduled, requestRef,
      lastGestureTime, now, helloCalls, signTimers>>

shareVars ==
    <<isScreenSharing, localTrack, outgoingTrack, pendingDisplay, pendingCamera,
      orphanScreens, displayRequests, captionTimers>>

meetingVars ==
    <<isCaptionsOn, transcript, recognitions, silenceTimer, detectedSign,
      speechSupported, gestureVars, shareVars>>

vars == <<mounted, isOpen, hasListener, isCameraReady, isTraining, trainingState,
          countdown, activeLabel, isTrainingRef, trainingStateRef, activeLabelRef,
          timers, dataset, storage, trainingCounts, recogStatus, predictCall, events, framesHandled,
          crashed, consoleError, probe, meetingCode, inMeeting, meetingId,
          countsAlias, isCaptionsOn, transcript, recognitions, silenceTimer,
          detectedSign, speechSupported, isCameraOn, isModelLoaded, estimating,
          scheduled, requestRef, lastGestureTime, now, helloCalls, signTimers,
          isScreenSharing, localTrack, outgoingTrack, pendingDisplay, pendingCamera,
          orphanScreens, displayRequests, captionTimers>>

---------------------------------------------------------------------------
(* Bounds *)

NumLandmarks == 2
MantissaBits == 4
MaxFrames == 2
MaxExamples == 2
MaxAdds == 3

---------------------------------------------------------------------------
(* Program constants *)

CountdownStart == 3
CodeLength == 6
Threshold == 800

SlotLen == 3 * NumLandmarks
FeatureLen == 2 * SlotLen

classes == <<"Hello", "Welcome", "Yes", "No", "Thank You", "Sorry", "To", "Our", "Team">>

NoLabel == "null"

\* The labels whose buttons the model presses.
SessionLabels == {classes[1], classes[3]}

---------------------------------------------------------------------------
(* JavaScript numbers: binary floating point with a fixed number of mantissa bits *)

RECURSIVE Pow2(_)
Pow2(n) == IF n = 0 THEN 1 ELSE 2 * Pow2(n - 1)

Abs(x) == IF x < 0 THEN 0 - x ELSE x

\* The spacing of the representable numbers around x.
RECURSIVE UlpFrom(_, _)
UlpFrom(a, u) == IF a < Pow2(MantissaBits) * u THEN u ELSE UlpFrom(a, 2 * u)

Ulp(x) == UlpFrom(Abs(x), 1)

\* Round to nearest, ties to even: the value an arithmetic operation stores.
Fl(x) ==
    LET a == Abs(x)
        u == Ulp(x)
        q == a \div u
        r == a % u
        m == IF 2 * r < u THEN q
             ELSE IF 2 * r > u THEN q + 1
             ELSE IF q % 2 = 0 THEN q ELSE q + 1
    IN  IF x < 0 THEN 0 - (m * u) ELSE m * u

\* a - b and a + b on numbers
FSub(a, b) == Fl(a - b)

FAdd(a, b) == Fl(a + b)

---------------------------------------------------------------------------
(* Frames delivered by the hand tracker *)

Hand(label, wrist, step) ==
    [label |-> label,
     landmarks |-> [i \in 1..NumLandmarks |->
                      <<wrist[1] + (i - 1) * step, wrist[2] + (i - 1), wrist[3]>>]]

LeftA == Hand("Left", <<1, 1, 0>>, 1)
RightB == Hand("Right", <<2, 0, 1>>, 2)

Frames == { [hands |-> <<>>],
            [hands |-> <<LeftA>>],
            [hands |-> <<RightB>>],
            [hands |-> <<LeftA, RightB>>] }

\* results.multiHandedness has no entry for the hand.
NoHandedness == "undefined"

\* Frames the tracker's contract excludes: a landmark list that is one landmark
\* short, and a hand without its handedness entry.
BadFrames ==
    { [hands |-> <<[LeftA EXCEPT !.landmarks = SubSeq(@, 1, NumLandmarks - 1)]>>],
      [hands |-> <<[RightB EXCEPT !.label = NoHandedness]>>] }

Zeros == [k \in 1..FeatureLen |-> 0]

FrameDataSwapped(results) ==
    LET landmarks == results.hands[1].landmarks
        wrist == landmarks[1]
        offset == IF results.hands[1].label = "Right" THEN 0 ELSE SlotLen
        Point(k) == ((k - offset - 1) \div 3) + 1
        Coord(k) == ((k - offset - 1) % 3) + 1
    IN  [k \in 1..FeatureLen |->
            IF k > offset /\ k <= offset + 3 * Len(landmarks)
            THEN FSub(landmarks[Point(k)][Coord(k)], wrist[Coord(k)])
            ELSE Zeros[k]]

FrameDataAbsolute(results) ==
    LET landmarks == results.hands[1].landmarks
        offset == IF results.hands[1].label = "Right" THEN SlotLen ELSE 0
        Point(k) == ((k - offset - 1) \div 3) + 1
        Coord(k) == ((k - offset - 1) % 3) + 1
    IN  [k \in 1..FeatureLen |->
            IF k > offset /\ k <= offset + 3 * Len(landmarks)
            THEN landmarks[Point(k)][Coord(k)]
            ELSE Zeros[k]]

\* frameData[idx] = val: a write past the end makes the array longer. The writes
\* of onResults go up one index at a time, so such a write is at the end.
SetAt(arr, idx, val) ==
    IF idx <= Len(arr) THEN [arr EXCEPT ![idx] = val] ELSE Append(arr, val)

FrameDataNoPadding(results) ==
    LET landmarks == results.hands[1].landmarks
        wrist == landmarks[1]
        RECURSIVE Fill(_, _)
        Fill(arr, i) ==
            IF i > Len(landmarks) THEN arr
            ELSE Fill(SetAt(SetAt(SetAt(arr,
                        3 * (i - 1) + 1, FSub(landmarks[i][1], wrist[1])),
                        3 * (i - 1) + 2, FSub(landmarks[i][2], wrist[2])),
                        3 * (i - 1) + 3, FSub(landmarks[i][3], wrist[3])), i + 1)
    IN  Fill(<<>>, 1)

\* new Array(126).fill(0), then the wrist-relative landmarks of hand 0 written at
\* the offset of its handedness, landmark by landmark.
FrameData(results) ==
    LET landmarks == results.hands[1].landmarks
        wrist == landmarks[1]
        offset == IF results.hands[1].label = "Right" THEN SlotLen ELSE 0
        RECURSIVE Fill(_, _)
        Fill(arr, i) ==
            IF i > Len(landmarks) THEN arr
            ELSE Fill(SetAt(SetAt(SetAt(arr,
                        offset + 3 * (i - 1) + 1, FSub(landmarks[i][1], wrist[1])),
                        offset + 3 * (i - 1) + 2, FSub(landmarks[i][2], wrist[2])),
                        offset + 3 * (i - 1) + 3, FSub(landmarks[i][3], wrist[3])), i + 1)
    IN  Fill(Zeros, 1)

HandFrames == { g \in Frames : Len(g.hands) > 0 }

Vectors == { FrameData(f) : f \in HandFrames }

---------------------------------------------------------------------------
(* ISLClassifier *)

EmptyDataset == << >>

AddExampleWrongLabel(ds, features, label) ==
    LET other == CHOOSE l \in SessionLabels : l # label
    IN  IF other \in DOMAIN ds
        THEN [ds EXCEPT ![other] = Append(@, features)]
        ELSE ds @@ (other :> <<features>>)

AddExample(ds, features, label) ==
    IF label \in DOMAIN ds
    THEN [ds EXCEPT ![label] = Append(@, features)]
    ELSE ds @@ (label :> <<features>>)

GetNumClasses(ds) == Cardinality(DOMAIN ds)

GetExampleCounts(ds) == [l \in DOMAIN ds |-> Len(ds[l])]

NumExamples(ds) ==
    LET RECURSIVE Sum(_)
        Sum(S) == IF S = {} THEN 0
                  ELSE LET l == CHOOSE x \in S : TRUE IN Len(ds[l]) + Sum(S \ {l})
    IN  Sum(DOMAIN ds)

RECURSIVE Flatten(_)
Flatten(examples) ==
    IF examples = <<>> THEN <<>> ELSE Head(examples) \o Flatten(Tail(examples))

SaveFirstExample(ds) == [l \in DOMAIN ds |-> Head(ds[l])]

\* JSON.stringify of {label: Array.from(dataSync())}: per label the flat array.
Save(ds) == [l \in DOMAIN ds |-> Flatten(ds[l])]

ReshapeBySlot(flat) ==
    [i \in 1..(Len(flat) \div SlotLen) |->
        SubSeq(flat, (i - 1) * SlotLen + 1, i * SlotLen)]

\* tf.tensor(flat, [flat.length / 126, 126])
Reshape(flat) ==
    [i \in 1..(Len(flat) \div FeatureLen) |->
        SubSeq(flat, (i - 1) * FeatureLen + 1, i * FeatureLen)]

NoError == "none"

\* What load(datasetStr) throws: JSON.parse a SyntaxError on text that is not JSON,
\* tf.tensor an Error on a shape [length / 126, 126] whose first entry is no
\* integer. Both come before setClassifierDataset.
LoadError(blob) ==
    IF ~blob.present THEN NoError
    ELSE IF ~blob.json THEN "SyntaxError"
    ELSE IF \E l \in DOMAIN blob.data : Len(blob.data[l]) % FeatureLen # 0 THEN "Error"
    ELSE NoError

\* load(datasetStr): a falsy string returns at once; a throw leaves the dataset;
\* else the dataset is replaced.
Load(ds, blob) ==
    IF ~blob.present \/ LoadError(blob) # NoError THEN ds
    ELSE [l \in DOMAIN blob.data |-> Reshape(blob.data[l])]

Clear == EmptyDataset

NullResult == [label |-> NoLabel, confidence |-> 0]

ConfidenceLevels == {500, 800, 801, 1000}

\* knnClassifier.predictClass: some label of the dataset with its confidence; with
\* no class in the dataset the library has no label to give.
PredictClassOutcomes(ds) ==
    IF DOMAIN ds = {} THEN {NullResult}
    ELSE [label : DOMAIN ds, confidence : ConfidenceLevels]

NoCall == [state |-> "none", consulted |-> FALSE, numExamples |-> 0,
           top |-> NullResult, result |-> NullResult]

PassesThresholdGE(confidence) == confidence >= Threshold

PassesThreshold(confidence) == confidence > Threshold

HasNoClassesNever(ds) == FALSE

HasNoClasses(ds) == GetNumClasses(ds) = 0

\* predict(features): the calls it can make, each with what it returns.
Predict(ds, features) ==
    IF HasNoClasses(ds)
    THEN { [state |-> "pending", consulted |-> FALSE, numExamples |-> NumExamples(ds),
            top |-> NullResult, result |-> NullResult] }
    ELSE { [state |-> "pending", consulted |-> TRUE, numExamples |-> NumExamples(ds),
            top |-> o,
            result |-> IF PassesThreshold(o.confidence) THEN o ELSE NullResult]
           : o \in PredictClassOutcomes(ds) }

---------------------------------------------------------------------------
(* ModelViewer *)

Status(kind) == [kind |-> kind, label |-> NoLabel]

\* getItem gives null when the entry is absent.
NoBlob == [present |-> FALSE, json |-> TRUE, data |-> << >>]

\* The string save() returns: JSON text of label -> flat array.
Blob(ds) == [present |-> TRUE, json |-> TRUE, data |-> Save(ds)]

NoProbe == [label |-> NoLabel, base |-> << >>, n |-> 0]

\* The bundled isl_model.json: an export (Download) of a trained classifier.
preTrainedModel == Blob(classes[1] :> <<FrameData([hands |-> <<LeftA>>])>>)

\* Datasets a previous run can have saved or exported.
StoredDatasets ==
    { EmptyDataset, (classes[3] :> <<FrameData([hands |-> <<RightB>>])>>) }

\* getExampleCounts hands on what the library's getClassExampleCount returns,
\* uncopied. The library is not among the sources: it returns either a copy of
\* its counter object or the counter object itself, which a later addExample
\* increments in place. countsAlias tells whose object the React state
\* trainingCounts holds:
\*   "copies"  the library returns copies; the state never shares an object;
\*   "shared"  the state is the library's own counter object;
\*   "own"     the library returns its own object, the state is an object
\*             ModelViewer built ({} or the result of the updater).
ReturnedCounts == IF countsAlias = "copies" THEN "copies" ELSE "shared"

BuiltCounts == IF countsAlias = "copies" THEN "copies" ELSE "own"

\* prev of the updater prev => ({...prev, [label]: (prev[label] || 0) + 1}),
\* read after classifier.addExample has run on dataset ds.
PrevCounts(ds) ==
    IF countsAlias = "shared" THEN GetExampleCounts(ds) ELSE trainingCounts

\* Date.now() when Meeting mounts: any time later than DebounceMs after the
\* epoch, the 0 lastGestureTime starts with.
MountTime == 2500

\* A video track: from getUserMedia or from getDisplayMedia; ended once the
\* user has stopped the capture from the browser.
CameraTrack == [kind |-> "camera", ended |-> FALSE]

ScreenTrack == [kind |-> "screen", ended |-> FALSE]

\* transcript: '' or `You: ${text}`.
NoCaption == [from |-> "none", text |-> ""]

Caption(from, text) == [from |-> from, text |-> text]

NoSign == "null"

\* Meeting before any of its buttons was pressed.
MeetingIdle ==
    /\ isCaptionsOn = FALSE
    /\ transcript = NoCaption
    /\ recognitions = <<>>
    /\ silenceTimer = FALSE
    /\ detectedSign = NoSign
    /\ isCameraOn = TRUE
    /\ isModelLoaded = FALSE
    /\ estimating = 0
    /\ scheduled = 0
    /\ requestRef = FALSE
    /\ lastGestureTime = 0
    /\ now = MountTime
    /\ helloCalls = <<>>
    /\ signTimers = {}
    /\ isScreenSharing = FALSE
    /\ localTrack = CameraTrack
    /\ outgoingTrack = CameraTrack
    /\ pendingDisplay = 0
    /\ pendingCamera = 0
    /\ orphanScreens = 0
    /\ displayRequests = 0
    /\ captionTimers = {}

Init ==
    /\ mounted = FALSE
    /\ isOpen = FALSE
    /\ hasListener \in BOOLEAN
    /\ isCameraReady = FALSE
    /\ isTraining = FALSE
    /\ trainingState = "idle"
    /\ countdown = CountdownStart
    /\ activeLabel = NoLabel
    /\ isTrainingRef = FALSE
    /\ trainingStateRef = "idle"
    /\ activeLabelRef = NoLabel
    /\ timers = <<>>
    /\ dataset = EmptyDataset
    /\ storage \in {NoBlob} \cup { Blob(d) : d \in StoredDatasets }
    /\ trainingCounts = << >>
    /\ recogStatus = Status("Initializing...")
    /\ predictCall = NoCall
    /\ events = <<>>
    /\ framesHandled = 0
    /\ crashed = FALSE
    /\ consoleError = NoError
    /\ meetingCode = <<>>
    /\ inMeeting = FALSE
    /\ meetingId = <<>>
    /\ countsAlias = "copies"
    /\ MeetingIdle
    /\ speechSupported = TRUE
    /\ probe = NoProbe

CountOf(counts, label) == IF label \in DOMAIN counts THEN counts[label] ELSE 0

\* prev => ({...prev, [label]: (prev[label] || 0) + 1})
IncrementCount(prev, label) ==
    [l \in DOMAIN prev \cup {label} |->
        IF l = label THEN CountOf(prev, label) + 1 ELSE prev[l]]

\* The sync effect: the refs take the values of the rendered state.
RefsFollow ==
    /\ isTrainingRef' = isTraining'
    /\ trainingStateRef' = trainingState'
    /\ activeLabelRef' = activeLabel'

RemoveAt(seq, i) == SubSeq(seq, 1, i - 1) \o SubSeq(seq, i + 1, Len(seq))

\* The mount effect: localStorage first, the bundled JSON otherwise. The load of the
\* localStorage entry stands outside any try: its throw leaves the effect
\* uncaught. The load of the bundled JSON is inside try/catch with console.error.
SavedModelFoundNever == FALSE

\* if (saved): localStorage.getItem('isl-model') gave a non-empty string.
SavedModelFound == storage.present

StartupLoad ==
    /\ ~mounted /\ ~crashed
    /\ IF SavedModelFound
       THEN IF LoadError(storage) # NoError
            THEN /\ crashed' = TRUE
                 /\ UNCHANGED <<mounted, dataset, trainingCounts, countsAlias,
                                recogStatus, consoleError>>
            ELSE /\ mounted' = TRUE
                 /\ dataset' = Load(dataset, storage)
                 /\ trainingCounts' = GetExampleCounts(dataset')
                 /\ countsAlias' = ReturnedCounts
                 /\ recogStatus' = Status("Ready (Custom Model Loaded)")
                 /\ UNCHANGED <<crashed, consoleError>>
       ELSE /\ mounted' = TRUE
            /\ IF LoadError(preTrainedModel) # NoError
               THEN /\ consoleError' = "Failed to load bundled model"
                    /\ UNCHANGED <<dataset, trainingCounts, countsAlias, recogStatus, crashed>>
               ELSE /\ dataset' = Load(dataset, preTrainedModel)
                    /\ trainingCounts' = GetExampleCounts(dataset')
                    /\ countsAlias' = ReturnedCounts
                    /\ recogStatus' = Status("Ready (Standard Model Loaded)")
                    /\ UNCHANGED <<crashed, consoleError>>
    /\ UNCHANGED <<isOpen, hasListener, isCameraReady, isTraining, trainingState,
                   countdown, activeLabel, isTrainingRef, trainingStateRef,
                   activeLabelRef, timers, storage, predictCall,
                   events, framesHandled, probe, lobbyVars, meetingVars>>

\* Meeting opens the viewer; the loadModel effect on isOpen runs, its body in
\* try/catch with console.error.
OpenViewer ==
    /\ mounted /\ ~isOpen
    /\ isOpen' = TRUE
    /\ IF storage.present
       THEN IF LoadError(storage) # NoError
            THEN /\ consoleError' = "Failed to load custom model"
                 /\ UNCHANGED <<dataset, trainingCounts, countsAlias, recogStatus>>
            ELSE /\ dataset' = Load(dataset, storage)
                 /\ trainingCounts' = GetExampleCounts(dataset')
                 /\ countsAlias' = ReturnedCounts
                 /\ recogStatus' = Status("Ready (Custom Model Loaded)")
                 /\ UNCHANGED consoleError
       ELSE /\ recogStatus' = Status("No Training Data found. Please Train.")
            /\ UNCHANGED <<dataset, trainingCounts, countsAlias, consoleError>>
    /\ UNCHANGED <<mounted, hasListener, isCameraReady, isTraining, trainingState,
                   countdown, activeLabel, timers, storage, predictCall, events,
                   framesHandled, crashed, probe, lobbyVars, meetingVars>>
    /\ RefsFollow

\* onClose / the AI icon: the component stays mounted and renders null.
CloseViewer ==
    /\ mounted /\ isOpen
    /\ isOpen' = FALSE
    /\ UNCHANGED <<mounted, hasListener, isCameraReady, isTraining, trainingState,
                   countdown, activeLabel, timers, dataset, storage, trainingCounts,
                   recogStatus, predictCall, events, framesHandled, crashed, consoleError, probe, lobbyVars, countsAlias, meetingVars>>
    /\ RefsFollow

\* Webcam onUserMedia
CameraReady ==
    /\ mounted /\ isOpen /\ ~isCameraReady
    /\ isCameraReady' = TRUE
    /\ UNCHANGED <<mounted, isOpen, hasListener, isTraining, trainingState,
                   countdown, activeLabel, isTrainingRef, trainingStateRef,
                   activeLabelRef, timers, dataset, storage, trainingCounts,
                   recogStatus, predictCall, events, framesHandled, crashed, consoleError, probe, lobbyVars, countsAlias, meetingVars>>

\* The mode-toggle button: setIsTraining(!isTraining)
ToggleMode ==
    /\ mounted /\ isOpen
    /\ isTraining' = ~isTraining
    /\ UNCHANGED <<mounted, isOpen, hasListener, isCameraReady, trainingState,
                   countdown, activeLabel, timers, dataset, storage, trainingCounts,
                   recogStatus, predictCall, events, framesHandled, crashed, consoleError, probe, lobbyVars, countsAlias, meetingVars>>
    /\ RefsFollow

SessionGuardMissing == TRUE

SessionGuard == trainingState = "idle"

StartTrainingSessionLateRefs(label) ==
    /\ mounted /\ isOpen /\ isTraining
    /\ IF ~SessionGuard
       THEN UNCHANGED vars
       ELSE /\ activeLabel' = label
            /\ trainingState' = "countdown"
            /\ countdown' = CountdownStart
            /\ timers' = Append(timers, [kind |-> "interval", count |-> CountdownStart])
            /\ UNCHANGED <<mounted, isOpen, hasListener, isCameraReady, isTraining,
                           isTrainingRef, trainingStateRef, activeLabelRef,
                           dataset, storage, trainingCounts, recogStatus,
                           predictCall, events, framesHandled, crashed, consoleError,
                           probe, lobbyVars, countsAlias, meetingVars>>

\* startTrainingSession(label), from the click of a label button: the render of
\* a click and its effects are done before the next event.
StartTrainingSession(label) ==
    /\ mounted /\ isOpen /\ isTraining
    /\ IF ~SessionGuard
       THEN UNCHANGED vars
       ELSE /\ activeLabel' = label
            /\ trainingState' = "countdown"
            /\ countdown' = CountdownStart
            /\ timers' = Append(timers, [kind |-> "interval", count |-> CountdownStart])
            /\ UNCHANGED <<mounted, isOpen, hasListener, isCameraReady, isTraining,
                           dataset, storage, trainingCounts, recogStatus,
                           predictCall, events, framesHandled, crashed, consoleError, probe, lobbyVars, countsAlias, meetingVars>>
            /\ RefsFollow

AfterTickBelowZero(i, count) ==
    IF count < 0
    THEN /\ trainingState' = "capturing"
         /\ timers' = Append(RemoveAt(timers, i), [kind |-> "timeout", count |-> 0])
    ELSE /\ timers' = [timers EXCEPT ![i].count = count]
         /\ UNCHANGED trainingState

\* The interval callback once count-- is done: at 0 the interval is cleared, the
\* state is 'capturing' and the capture timeout is set.
AfterTick(i, count) ==
    IF count = 0
    THEN /\ trainingState' = "capturing"
         /\ timers' = Append(RemoveAt(timers, i), [kind |-> "timeout", count |-> 0])
    ELSE /\ timers' = [timers EXCEPT ![i].count = count]
         /\ UNCHANGED trainingState

Tick(i) ==
    /\ timers[i].kind = "interval"
    /\ countdown' = timers[i].count - 1
    /\ AfterTick(i, timers[i].count - 1)
    /\ UNCHANGED <<mounted, isOpen, hasListener, isCameraReady, isTraining,
                   activeLabel, isTrainingRef, trainingStateRef, activeLabelRef,
                   dataset, storage, trainingCounts, recogStatus, predictCall, events, framesHandled, crashed, consoleError, probe, lobbyVars, countsAlias, meetingVars>>

SessionEndKeepsLabel == activeLabel' = activeLabel /\ trainingState' = "idle"

SessionEnd == activeLabel' = NoLabel /\ trainingState' = "idle"

\* The capture timeout, 3000 ms after the last tick.
CaptureTimeout(i) ==
    /\ timers[i].kind = "timeout"
    /\ SessionEnd
    /\ recogStatus' = Status("Training Complete!")
    /\ timers' = RemoveAt(timers, i)
    /\ UNCHANGED <<mounted, isOpen, hasListener, isCameraReady, isTraining,
                   countdown, isTrainingRef, trainingStateRef, activeLabelRef,
                   dataset, storage, trainingCounts, predictCall,
                   events, framesHandled, crashed, consoleError, probe, lobbyVars, countsAlias, meetingVars>>

\* The sync effect of a render that a timer callback caused: it runs after the
\* commit, in a task of its own, so a frame can be handled before it.
SyncRefs ==
    /\ <<isTrainingRef, trainingStateRef, activeLabelRef>>
         # <<isTraining, trainingState, activeLabel>>
    /\ UNCHANGED <<mounted, isOpen, hasListener, isCameraReady, isTraining,
                   trainingState, countdown, activeLabel, timers, dataset, storage,
                   trainingCounts, recogStatus, predictCall, events,
                   framesHandled, crashed, consoleError, probe, lobbyVars, countsAlias, meetingVars>>
    /\ RefsFollow

\* _isTraining && _trainingState === 'capturing' && _activeLabel, read from the refs
CaptureGate ==
    isTrainingRef /\ trainingStateRef = "capturing" /\ activeLabelRef # NoLabel

PredictGate == ~isTrainingRef

EmitDebounced(result) ==
    IF hasListener /\ (events = <<>> \/ events[Len(events)] # result.label)
    THEN events' = Append(events, result.label)
    ELSE UNCHANGED events

\* if (onHandSignDetected) onHandSignDetected(result.label)
Emit(result) ==
    IF hasListener THEN events' = Append(events, result.label) ELSE UNCHANGED events

\* results.multiHandedness[0].label on a missing entry: the handler ends there.
ThrowsTypeError(results) == results.hands[1].label = NoHandedness

\* onResults(results): one frame of the tracker, up to the await of predict.
OnResults(results) ==
    /\ mounted /\ isOpen /\ isCameraReady
    /\ predictCall.state # "pending"
    /\ framesHandled < MaxFrames
    /\ framesHandled' = framesHandled + 1
    /\ IF Len(results.hands) = 0
       THEN UNCHANGED <<dataset, trainingCounts, countsAlias, recogStatus, predictCall>>
       ELSE IF ThrowsTypeError(results)
       THEN UNCHANGED <<dataset, trainingCounts, countsAlias, recogStatus, predictCall>>
       ELSE IF CaptureGate
       THEN /\ NumExamples(dataset) < MaxExamples
            /\ dataset' = AddExample(dataset, FrameData(results), activeLabelRef)
            /\ trainingCounts' = IncrementCount(PrevCounts(dataset'), activeLabelRef)
            /\ countsAlias' = BuiltCounts
            /\ recogStatus' = [kind |-> "Training...", label |-> activeLabelRef]
            /\ UNCHANGED predictCall
       ELSE IF PredictGate
       THEN /\ predictCall' \in Predict(dataset, FrameData(results))
            /\ UNCHANGED <<dataset, trainingCounts, countsAlias, recogStatus>>
       ELSE UNCHANGED <<dataset, trainingCounts, countsAlias, recogStatus, predictCall>>
    /\ UNCHANGED <<mounted, isOpen, hasListener, isCameraReady, isTraining,
                   trainingState, countdown, activeLabel, isTrainingRef,
                   trainingStateRef, activeLabelRef, timers, storage, events, crashed,
                   consoleError, probe, lobbyVars, meetingVars>>

\* onResults after the await: predict's result is shown and sent to Meeting.
PredictResolve ==
    /\ predictCall.state = "pending"
    /\ predictCall' = NoCall
    /\ IF predictCall.result # NullResult
       THEN /\ recogStatus' = [kind |-> "Detected", label |-> predictCall.result.label]
            /\ Emit(predictCall.result)
       ELSE UNCHANGED <<recogStatus, events>>
    /\ UNCHANGED <<mounted, isOpen, hasListener, isCameraReady, isTraining,
                   trainingState, countdown, activeLabel, isTrainingRef,
                   trainingStateRef, activeLabelRef, timers, dataset, storage,
                   trainingCounts, framesHandled, crashed, consoleError, probe, lobbyVars, countsAlias, meetingVars>>

\* The Save button of the training panel.
SaveClick ==
    /\ mounted /\ isOpen /\ isTraining
    /\ storage' = Blob(dataset)
    /\ UNCHANGED <<mounted, isOpen, hasListener, isCameraReady, isTraining,
                   trainingState, countdown, activeLabel, isTrainingRef,
                   trainingStateRef, activeLabelRef, timers, dataset,
                   trainingCounts, recogStatus, predictCall, events,
                   framesHandled, crashed, consoleError, probe, lobbyVars, countsAlias, meetingVars>>

\* The Download button: the blob goes to a file, no state of the viewer changes.
DownloadClick ==
    /\ mounted /\ isOpen /\ isTraining
    /\ UNCHANGED vars

ClearClickKeepsStorage ==
    /\ mounted /\ isOpen /\ isTraining
    /\ dataset' = Clear
    /\ trainingCounts' = << >>
    /\ countsAlias' = BuiltCounts
    /\ UNCHANGED <<mounted, isOpen, hasListener, isCameraReady, isTraining,
                   trainingState, countdown, activeLabel, timers, storage, recogStatus,
                   predictCall, events, framesHandled, crashed, consoleError, probe,
                   lobbyVars, meetingVars>>
    /\ RefsFollow

\* The Clear button, confirmed.
ClearClick ==
    /\ mounted /\ isOpen /\ isTraining
    /\ dataset' = Clear
    /\ trainingCounts' = << >>
    /\ storage' = NoBlob
    /\ countsAlias' = BuiltCounts
    /\ UNCHANGED <<mounted, isOpen, hasListener, isCameraReady, isTraining,
                   trainingState, countdown, activeLabel, timers, recogStatus,
                   predictCall, events, framesHandled,
                   crashed, consoleError, probe, lobbyVars, meetingVars>>
    /\ RefsFollow

TimerFires == \E i \in 1..Len(timers) : Tick(i) \/ CaptureTimeout(i)

Next ==
    \/ StartupLoad
    \/ OpenViewer
    \/ CloseViewer
    \/ CameraReady
    \/ ToggleMode
    \/ \E label \in SessionLabels : StartTrainingSession(label)
    \/ \E i \in 1..Len(timers) : Tick(i)
    \/ \E i \in 1..Len(timers) : CaptureTimeout(i)
    \/ SyncRefs
    \/ \E results \in Frames : OnResults(results)
    \/ PredictResolve
    \/ SaveClick
    \/ DownloadClick
    \/ ClearClick

Spec == Init /\ [][Next]_vars

\* The browser fires a pending timer.
LiveSpec == Spec /\ WF_vars(TimerFires)

---------------------------------------------------------------------------
(* The classifier alone: addExample calls on a starting dataset *)

ProbeVectors == Vectors \cup {Zeros}

StartDatasets ==
    StoredDatasets \cup
    { (classes[1] :> <<FrameData([hands |-> <<LeftA>>]), Zeros>>)
        @@ (classes[3] :> <<FrameData([hands |-> <<RightB>>])>>) }

InitAdd ==
    /\ mounted = TRUE
    /\ isOpen = FALSE
    /\ hasListener = FALSE
    /\ isCameraReady = FALSE
    /\ isTraining = FALSE
    /\ trainingState = "idle"
    /\ countdown = CountdownStart
    /\ activeLabel = NoLabel
    /\ isTrainingRef = FALSE
    /\ trainingStateRef = "idle"
    /\ activeLabelRef = NoLabel
    /\ timers = <<>>
    /\ dataset \in StartDatasets
    /\ storage = NoBlob
    /\ trainingCounts = << >>
    /\ recogStatus = Status("Initializing...")
    /\ predictCall = NoCall
    /\ events = <<>>
    /\ framesHandled = 0
    /\ crashed = FALSE
    /\ consoleError = NoError
    /\ meetingCode = <<>>
    /\ inMeeting = FALSE
    /\ meetingId = <<>>
    /\ countsAlias = "copies"
    /\ MeetingIdle
    /\ speechSupported = TRUE
    /\ \E label \in SessionLabels :
          probe = [label |-> label, base |-> GetExampleCounts(dataset), n |-> 0]

\* classifier.addExample(features, probe.label)
AddExampleCall(features) ==
    /\ probe.n < MaxAdds
    /\ dataset' = AddExample(dataset, features, probe.label)
    /\ probe' = [probe EXCEPT !.n = @ + 1]
    /\ UNCHANGED <<mounted, isOpen, hasListener, isCameraReady, isTraining,
                   trainingState, countdown, activeLabel, isTrainingRef,
                   trainingStateRef, activeLabelRef, timers, storage,
                   trainingCounts, recogStatus, predictCall, events, framesHandled,
                   crashed, consoleError, lobbyVars, countsAlias, meetingVars>>

NextAdd == \E features \in ProbeVectors : AddExampleCall(features)

SpecAdd == InitAdd /\ [][NextAdd]_vars

---------------------------------------------------------------------------
(* The classifier alone: addExample, save and load calls *)

\* Text that JSON.parse rejects.
UnparsableBlob == [present |-> TRUE, json |-> FALSE, data |-> << >>]

\* JSON whose array for some label is no whole number of feature vectors: one
\* number too many, and half a vector beside a good label.
MalformedBlobs ==
    { [present |-> TRUE, json |-> TRUE, data |-> (classes[1] :> Append(Zeros, 0))],
      [present |-> TRUE, json |-> TRUE,
       data |-> (classes[1] :> FrameData([hands |-> <<LeftA>>]))
                  @@ (classes[3] :> SubSeq(Zeros, 1, SlotLen))] }

IsMalformed(blob) ==
    /\ blob.present /\ blob.json
    /\ \E l \in DOMAIN blob.data : Len(blob.data[l]) % FeatureLen # 0

StoreBlobs ==
    {NoBlob, UnparsableBlob} \cup MalformedBlobs \cup { Blob(d) : d \in StoredDatasets }

InitStore ==
    /\ mounted = TRUE
    /\ isOpen = FALSE
    /\ hasListener = FALSE
    /\ isCameraReady = FALSE
    /\ isTraining = FALSE
    /\ trainingState = "idle"
    /\ countdown = CountdownStart
    /\ activeLabel = NoLabel
    /\ isTrainingRef = FALSE
    /\ trainingStateRef = "idle"
    /\ activeLabelRef = NoLabel
    /\ timers = <<>>
    /\ dataset \in StartDatasets
    /\ storage \in StoreBlobs
    /\ trainingCounts = << >>
    /\ recogStatus = Status("Initializing...")
    /\ predictCall = NoCall
    /\ events = <<>>
    /\ framesHandled = 0
    /\ crashed = FALSE
    /\ consoleError = NoError
    /\ meetingCode = <<>>
    /\ inMeeting = FALSE
    /\ meetingId = <<>>
    /\ countsAlias = "copies"
    /\ MeetingIdle
    /\ speechSupported = TRUE
    /\ \E label \in SessionLabels :
          probe = [label |-> label, base |-> GetExampleCounts(dataset), n |-> 0,
                   loads |-> 0, before |-> dataset, error |-> NoError]

\* storage = classifier.save()
SaveCall ==
    /\ storage' = Blob(dataset)
    /\ UNCHANGED <<mounted, isOpen, hasListener, isCameraReady, isTraining,
                   trainingState, countdown, activeLabel, isTrainingRef,
                   trainingStateRef, activeLabelRef, timers, dataset,
                   trainingCounts, recogStatus, predictCall, events, framesHandled,
                   crashed, consoleError, probe, lobbyVars, countsAlias, meetingVars>>

\* classifier.load(storage), with what it throws noted
LoadCall ==
    /\ dataset' = Load(dataset, storage)
    /\ probe' = [probe EXCEPT !.loads = 1, !.before = dataset,
                              !.error = LoadError(storage)]
    /\ UNCHANGED <<mounted, isOpen, hasListener, isCameraReady, isTraining,
                   trainingState, countdown, activeLabel, isTrainingRef,
                   trainingStateRef, activeLabelRef, timers, storage,
                   trainingCounts, recogStatus, predictCall, events, framesHandled,
                   crashed, consoleError, lobbyVars, countsAlias, meetingVars>>

NextStore ==
    \/ \E features \in ProbeVectors : AddExampleCall(features)
    \/ SaveCall
    \/ LoadCall

SpecStore == InitStore /\ [][NextStore]_vars

---------------------------------------------------------------------------
(* The viewer over a localStorage entry that this run did not write *)

\* A model saved while 'Please' was still among the classes (the constructor's
\* comment: "User removed 'Please'").
LegacyBlobs == { Blob("Please" :> <<FrameData([hands |-> <<LeftA>>])>>) }

InitPersist ==
    /\ mounted = FALSE
    /\ isOpen = FALSE
    /\ hasListener = FALSE
    /\ isCameraReady = FALSE
    /\ isTraining = FALSE
    /\ trainingState = "idle"
    /\ countdown = CountdownStart
    /\ activeLabel = NoLabel
    /\ isTrainingRef = FALSE
    /\ trainingStateRef = "idle"
    /\ activeLabelRef = NoLabel
    /\ timers = <<>>
    /\ dataset = EmptyDataset
    /\ storage \in StoreBlobs \cup LegacyBlobs
    /\ trainingCounts = << >>
    /\ recogStatus = Status("Initializing...")
    /\ predictCall = NoCall
    /\ events = <<>>
    /\ framesHandled = 0
    /\ crashed = FALSE
    /\ consoleError = NoError
    /\ meetingCode = <<>>
    /\ inMeeting = FALSE
    /\ meetingId = <<>>
    /\ countsAlias = "copies"
    /\ MeetingIdle
    /\ speechSupported = TRUE
    /\ probe = NoProbe

\* localStorage belongs to the origin: while the viewer is closed the entry
\* 'isl-model' is replaced from outside the component by text load() rejects.
ExternalStorageWrite(blob) ==
    /\ mounted /\ ~isOpen
    /\ storage # blob
    /\ storage' = blob
    /\ UNCHANGED <<mounted, isOpen, hasListener, isCameraReady, isTraining,
                   trainingState, countdown, activeLabel, isTrainingRef,
                   trainingStateRef, activeLabelRef, timers, dataset,
                   trainingCounts, recogStatus, predictCall, events,
                   framesHandled, crashed, consoleError, probe, lobbyVars, countsAlias, meetingVars>>

NextPersist ==
    \/ Next
    \/ \E blob \in {UnparsableBlob} \cup MalformedBlobs : ExternalStorageWrite(blob)

SpecPersist == InitPersist /\ [][NextPersist]_vars

---------------------------------------------------------------------------
(* The viewer fed frames outside the tracker's contract as well *)

NextFrames ==
    \/ Next
    \/ \E results \in BadFrames : OnResults(results)

SpecFrames == Init /\ [][NextFrames]_vars

---------------------------------------------------------------------------
(* The feature extraction of onResults alone *)

ExtractHands ==
    { Hand(label, wrist, step) :
        label \in {"Left", "Right"},
        wrist \in {<<1, 1, 0>>, <<2, 0, 1>>, <<0, 3, 2>>},
        step \in {1, 2} }

ExtractFrames ==
    { [hands |-> <<>>] }
      \cup { [hands |-> <<h>>] : h \in ExtractHands }
      \cup { [hands |-> <<h1, h2>>] : h1 \in ExtractHands, h2 \in ExtractHands }

\* frameData as onResults has it once the hands of the frame are gone through
FrameVector(results) ==
    IF Len(results.hands) = 0 THEN Zeros ELSE FrameData(results)

InitExtract ==
    /\ mounted = TRUE
    /\ isOpen = TRUE
    /\ hasListener = FALSE
    /\ isCameraReady = TRUE
    /\ isTraining = FALSE
    /\ trainingState = "idle"
    /\ countdown = CountdownStart
    /\ activeLabel = NoLabel
    /\ isTrainingRef = FALSE
    /\ trainingStateRef = "idle"
    /\ activeLabelRef = NoLabel
    /\ timers = <<>>
    /\ dataset = EmptyDataset
    /\ storage = NoBlob
    /\ trainingCounts = << >>
    /\ recogStatus = Status("Initializing...")
    /\ predictCall = NoCall
    /\ events = <<>>
    /\ framesHandled = 0
    /\ crashed = FALSE
    /\ consoleError = NoError
    /\ meetingCode = <<>>
    /\ inMeeting = FALSE
    /\ meetingId = <<>>
    /\ countsAlias = "copies"
    /\ MeetingIdle
    /\ speechSupported = TRUE
    /\ \E results \in ExtractFrames :
          probe = [frame |-> results, done |-> FALSE, vector |-> Zeros]

\* The extraction part of onResults on the frame at hand
Extract ==
    /\ ~probe.done
    /\ probe' = [probe EXCEPT !.done = TRUE, !.vector = FrameVector(probe.frame)]
    /\ UNCHANGED <<mounted, isOpen, hasListener, isCameraReady, isTraining,
                   trainingState, countdown, activeLabel, isTrainingRef,
                   trainingStateRef, activeLabelRef, timers, dataset, storage,
                   trainingCounts, recogStatus, predictCall, events, framesHandled,
                   crashed, consoleError, lobbyVars, countsAlias, meetingVars>>

NextExtract == Extract

SpecExtract == InitExtract /\ [][NextExtract]_vars

\* Offsets (dx, dy, dz) by which an observation is moved: small ones, and one
\* that takes the coordinates out of the range where every integer is a number.
TranslationOffsets ==
    { <<1, 1, 1>>, <<0, 2, 0>>, <<Pow2(MantissaBits) - 1, 0, 3>> }

\* The observation with d added to every landmark of every hand.
Translate(results, d) ==
    [hands |-> [j \in 1..Len(results.hands) |->
        [label |-> results.hands[j].label,
         landmarks |-> [i \in 1..Len(results.hands[j].landmarks) |->
             [c \in 1..3 |-> FAdd(results.hands[j].landmarks[i][c], d[c])]]]]]

\* No addition of d to a landmark of the frame is rounded.
ExactShift(results, d) ==
    \A j \in 1..Len(results.hands) :
      \A i \in 1..Len(results.hands[j].landmarks) : \A c \in 1..3 :
        FAdd(results.hands[j].landmarks[i][c], d[c])
          = results.hands[j].landmarks[i][c] + d[c]

\* The first three values of the slot of the frame's hand 0 are zero.
WristEntriesZero(results, vector) ==
    Len(results.hands) > 0 =>
        \A c \in 1..3 :
            vector[(IF results.hands[1].label = "Right" THEN SlotLen ELSE 0) + c] = 0

\* Left -> 0, Right -> 63
SlotOffset(label) == IF label = "Right" THEN SlotLen ELSE 0

OtherSlotOffset(label) == IF label = "Right" THEN 0 ELSE SlotLen

\* The slot at offset holds the landmarks of hand relative to that hand's wrist.
SlotHolds(vector, offset, hand) ==
    \A i \in 1..NumLandmarks : \A c \in 1..3 :
        vector[offset + 3 * (i - 1) + c] = hand.landmarks[i][c] - hand.landmarks[1][c]

SlotIsZero(vector, offset) ==
    \A k \in (offset + 1)..(offset + SlotLen) : vector[k] = 0

---------------------------------------------------------------------------
(* Lobby and App: joining a meeting by code *)

\* Characters a user types or pastes: a letter, a digit, a space, a sign that is
\* neither, and a letter whose upper case is two characters.
TypedChars == {"a", "7", " ", "-", "ß"}

\* String.prototype.toUpperCase, character by character
UpperOf(c) ==
    IF c = "a" THEN <<"A">>
    ELSE IF c = "ß" THEN <<"S", "S">>
    ELSE <<c>>

RECURSIVE ToUpperCase(_)
ToUpperCase(str) ==
    IF str = <<>> THEN <<>> ELSE UpperOf(Head(str)) \o ToUpperCase(Tail(str))

\* A character that /[^A-Z0-9]/gi leaves in place
IsAlphanumeric(c) == c \in {"a", "A", "S", "7"}

RECURSIVE TrimStart(_)
TrimStart(str) ==
    IF str # <<>> /\ Head(str) = " " THEN TrimStart(Tail(str)) ELSE str

RECURSIVE TrimEnd(_)
TrimEnd(str) ==
    IF str # <<>> /\ str[Len(str)] = " "
    THEN TrimEnd(SubSeq(str, 1, Len(str) - 1)) ELSE str

\* String.prototype.trim
Trim(str) == TrimEnd(TrimStart(str))

\* str.slice(0, n)
Slice(str, n) == SubSeq(str, 1, IF Len(str) < n THEN Len(str) ELSE n)

\* The random 6-character ID App makes at mount.
userId == <<"A", "7", "A", "7", "A", "7">>

PastedTexts ==
    { <<"a", "7", "-", "a", " ", "7", "a", "a", "7">>,
      <<"ß", "a", "7">>,
      <<" ", "a", "7", "a", "7", "a", "7">>,
      <<"-", " ">> }

InitLobby == Init /\ ~hasListener /\ storage = NoBlob

\* App.handleJoinMeeting: the Meeting replaces the Lobby, whose state is gone.
OnJoinMeeting(code) ==
    /\ meetingId' = code
    /\ inMeeting' = TRUE
    /\ meetingCode' = <<>>

ModelViewerVars ==
    <<mounted, isOpen, hasListener, isCameraReady, isTraining, trainingState,
      countdown, activeLabel, isTrainingRef, trainingStateRef, activeLabelRef,
      timers, dataset, storage, trainingCounts, recogStatus, predictCall, events,
      framesHandled, crashed, consoleError, probe, countsAlias, meetingVars>>

FitsCodeAlways(value) == TRUE

\* value.length <= 6
FitsCode(value) == Len(value) <= CodeLength

\* handleInputChange on the field's new text
HandleInputChange(text) ==
    /\ ~inMeeting
    /\ LET value == ToUpperCase(text)
       IN  IF FitsCode(value) THEN meetingCode' = value ELSE UNCHANGED meetingCode
    /\ UNCHANGED <<inMeeting, meetingId, ModelViewerVars>>

\* The user types a character (the field takes it while it holds fewer than
\* maxLength = 6) or deletes the last one.
TypeChar(c) ==
    /\ Len(meetingCode) < CodeLength
    /\ HandleInputChange(Append(meetingCode, c))

Backspace ==
    /\ meetingCode # <<>>
    /\ HandleInputChange(SubSeq(meetingCode, 1, Len(meetingCode) - 1))

\* handlePaste
HandlePaste(pastedText) ==
    /\ ~inMeeting
    /\ meetingCode' = Slice(ToUpperCase(SelectSeq(pastedText, IsAlphanumeric)), CodeLength)
    /\ UNCHANGED <<inMeeting, meetingId, ModelViewerVars>>

\* handleJoinClick, whoever calls it
JoinIfSixChars ==
    IF Len(Trim(meetingCode)) = CodeLength
    THEN OnJoinMeeting(ToUpperCase(meetingCode))
    ELSE UNCHANGED <<meetingCode, inMeeting, meetingId>>

\* The Join button, disabled unless the field holds 6 characters
JoinClick ==
    /\ ~inMeeting
    /\ Len(meetingCode) = CodeLength
    /\ JoinIfSixChars
    /\ UNCHANGED ModelViewerVars

\* handleKeyPress with the Enter key
KeyPressEnter ==
    /\ ~inMeeting
    /\ IF Len(Trim(meetingCode)) = CodeLength
       THEN JoinIfSixChars
       ELSE UNCHANGED <<meetingCode, inMeeting, meetingId>>
    /\ UNCHANGED ModelViewerVars

\* handleStartMeeting
StartMeeting ==
    /\ ~inMeeting
    /\ OnJoinMeeting(userId)
    /\ UNCHANGED ModelViewerVars

\* App.handleLeaveMeeting: the Lobby is mounted anew.
LeaveMeeting ==
    /\ inMeeting
    /\ inMeeting' = FALSE
    /\ meetingId' = <<>>
    /\ meetingCode' = <<>>
    /\ UNCHANGED ModelViewerVars

NextLobby ==
    \/ \E c \in TypedChars : TypeChar(c)
    \/ Backspace
    \/ \E pastedText \in PastedTexts : HandlePaste(pastedText)
    \/ JoinClick
    \/ KeyPressEnter
    \/ StartMeeting
    \/ LeaveMeeting

SpecLobby == InitLobby /\ [][NextLobby]_vars

---------------------------------------------------------------------------
(* Meeting.jsx: captions.  The effect on [isCaptionsOn] creates one         *)
(* SpeechRecognition object per run that finds captions on; recognitions    *)
(* lists them in order of creation, the last one belonging to the current   *)
(* effect run while captions are on.  Of each object: running (started and  *)
(* not ended), onend (the restart handler is still attached), restart (the  *)
(* 300 ms timeout set by onend is pending).  Timeouts are untimed here:     *)
(* a pending timeout fires at some later step.                              *)

MaxRecognitions == 2

\* What no handler of Meeting touches: the state of ModelViewer, Lobby and App.
nonMeetingVars ==
    <<mounted, isOpen, hasListener, isCameraReady, isTraining, trainingState,
      countdown, activeLabel, isTrainingRef, trainingStateRef, activeLabelRef,
      timers, dataset, storage, trainingCounts, recogStatus, predictCall, events,
      framesHandled, crashed, consoleError, probe, lobbyVars, countsAlias>>

\* What the recognizer hears: a text with the keyword 'hello' and one without
\* any keyword of signKeywords.
SpokenTexts == {"hello", "okay"}

\* detectSignFromSpeech: the sign of the first keyword the text includes.
SignFromSpeech(text) == IF text = "hello" THEN "Hello" ELSE NoSign

NewRecognition == [running |-> TRUE, onend |-> TRUE, restart |-> FALSE]

\* The effect cleanup: recognition.onend = null; recognition.stop(), for the
\* object of the effect run being cleaned up (none when that run found
\* captions off); the restart timeout is not cleared.
CleanedUp(recs) ==
    IF recs = <<>> THEN recs
    ELSE [recs EXCEPT ![Len(recs)] = [@ EXCEPT !.running = FALSE, !.onend = FALSE]]

InitCaptions ==
    /\ mounted = FALSE
    /\ isOpen = FALSE
    /\ hasListener = FALSE
    /\ isCameraReady = FALSE
    /\ isTraining = FALSE
    /\ trainingState = "idle"
    /\ countdown = CountdownStart
    /\ activeLabel = NoLabel
    /\ isTrainingRef = FALSE
    /\ trainingStateRef = "idle"
    /\ activeLabelRef = NoLabel
    /\ timers = <<>>
    /\ dataset = EmptyDataset
    /\ storage = NoBlob
    /\ trainingCounts = << >>
    /\ recogStatus = Status("Initializing...")
    /\ predictCall = NoCall
    /\ events = <<>>
    /\ framesHandled = 0
    /\ crashed = FALSE
    /\ consoleError = NoError
    /\ meetingCode = <<>>
    /\ inMeeting = TRUE
    /\ meetingId = userId
    /\ countsAlias = "copies"
    /\ MeetingIdle
    /\ speechSupported \in BOOLEAN
    /\ probe = NoProbe

\* toggleCaptions, the re-render and the effect on [isCaptionsOn]: its cleanup
\* (clearTimeout(timeoutRef.current) in either direction) and its new run.
ToggleCaptions ==
    /\ silenceTimer' = FALSE
    /\ IF isCaptionsOn
       THEN /\ isCaptionsOn' = FALSE
            /\ recognitions' = CleanedUp(recognitions)
            /\ UNCHANGED <<transcript, detectedSign>>
       ELSE /\ transcript' = NoCaption
            /\ detectedSign' = NoSign
            /\ IF speechSupported
               THEN /\ Len(recognitions) < MaxRecognitions
                    /\ isCaptionsOn' = TRUE
                    /\ recognitions' = Append(recognitions, NewRecognition)
               ELSE \* alert('Speech recognition not supported.'); setIsCaptionsOn(false)
                    /\ isCaptionsOn' = FALSE
                    /\ UNCHANGED recognitions
    /\ UNCHANGED <<speechSupported, gestureVars, shareVars, nonMeetingVars>>

\* The browser ends recognition i (silence, network, the end of an utterance):
\* the end event calls onend if it is still attached; the handler's
\* isCaptionsOn is the true of the effect run that created it.
RecognitionEnds(i) ==
    /\ recognitions[i].running
    /\ recognitions' = [recognitions EXCEPT ![i] =
           [@ EXCEPT !.running = FALSE, !.restart = @ \/ recognitions[i].onend]]
    /\ UNCHANGED <<isCaptionsOn, transcript, silenceTimer, detectedSign,
                   speechSupported, gestureVars, shareVars, nonMeetingVars>>

\* The 300 ms timeout of onend: isCaptionsOn and recognition are those of the
\* closure, true and the object; start() on a running object throws and is
\* caught.
RestartTimeout(i) ==
    /\ recognitions[i].restart
    /\ recognitions' = [recognitions EXCEPT ![i] =
           [@ EXCEPT !.restart = FALSE, !.running = TRUE]]
    /\ UNCHANGED <<isCaptionsOn, transcript, silenceTimer, detectedSign,
                   speechSupported, gestureVars, shareVars, nonMeetingVars>>

\* recognition.onresult of a running object (never detached): the caption, the
\* sign of the text, and the silence timeout replacing the previous one.
OnResult(i, text) ==
    /\ recognitions[i].running
    /\ transcript' = Caption("You", text)
    /\ detectedSign' = IF SignFromSpeech(text) # NoSign THEN SignFromSpeech(text)
                       ELSE detectedSign
    /\ silenceTimer' = TRUE
    /\ UNCHANGED <<isCaptionsOn, recognitions, speechSupported, gestureVars, shareVars, nonMeetingVars>>

\* The 3000 ms silence timeout.
SilenceTimeout ==
    /\ silenceTimer
    /\ silenceTimer' = FALSE
    /\ transcript' = NoCaption
    /\ detectedSign' = NoSign
    /\ UNCHANGED <<isCaptionsOn, recognitions, speechSupported, gestureVars, shareVars, nonMeetingVars>>

\* recognition.onerror with 'not-allowed': the recognition ends,
\* setIsCaptionsOn(false), and the effect cleanup follows the re-render.
NotAllowed(i) ==
    /\ recognitions[i].running
    /\ isCaptionsOn' = FALSE
    /\ recognitions' =
          LET ended == [recognitions EXCEPT ![i] = [@ EXCEPT !.running = FALSE]]
          IN  IF isCaptionsOn THEN CleanedUp(ended) ELSE ended
    /\ silenceTimer' = IF isCaptionsOn THEN FALSE ELSE silenceTimer
    /\ UNCHANGED <<transcript, detectedSign, speechSupported, gestureVars, shareVars, nonMeetingVars>>

NextCaptions ==
    \/ ToggleCaptions
    \/ \E i \in 1..Len(recognitions) : RecognitionEnds(i)
    \/ \E i \in 1..Len(recognitions) : RestartTimeout(i)
    \/ \E i \in 1..Len(recognitions), text \in SpokenTexts : OnResult(i, text)
    \/ SilenceTimeout
    \/ \E i \in 1..Len(recognitions) : NotAllowed(i)

SpecCaptions == InitCaptions /\ [][NextCaptions]_vars

---------------------------------------------------------------------------
(* Meeting.jsx: the gesture detection loop.  Time is Date.now() in ms,       *)
(* advancing in steps of TimeStep; a timeout fires when the clock is at its *)
(* due time.  A detect call is either awaiting estimateHands or waiting for *)
(* the animation frame it requested; requestRef.current names the frame     *)
(* requested last, which is all the effect cleanup can cancel.              *)

TimeStep == 500
MaxTime == 8500
MaxLoops == 2

DebounceMs == 2000
ClearAfterMs == 2500

captionVars ==
    <<isCaptionsOn, transcript, recognitions, silenceTimer, speechSupported>>

\* predictions of estimateHands: no hand, or one hand of which index, middle,
\* ring and pinky are extended or not (tip above the joint two below it).
Fingers == [1..4 -> BOOLEAN]

Predictions == {<<>>} \cup { <<f>> : f \in Fingers }

ExtendedCount(f) == Cardinality({ k \in 1..4 : f[k] })

OpenPalm(predictions) ==
    /\ Len(predictions) > 0
    /\ ExtendedCount(predictions[1]) >= 3

PastDebounceOrEqual(t, last) == t - last >= DebounceMs

\* now - lastGestureTime.current > 2000
PastDebounce(t, last) == t - last > DebounceMs

InitGesture ==
    /\ mounted = FALSE
    /\ isOpen = FALSE
    /\ hasListener = FALSE
    /\ isCameraReady = FALSE
    /\ isTraining = FALSE
    /\ trainingState = "idle"
    /\ countdown = CountdownStart
    /\ activeLabel = NoLabel
    /\ isTrainingRef = FALSE
    /\ trainingStateRef = "idle"
    /\ activeLabelRef = NoLabel
    /\ timers = <<>>
    /\ dataset = EmptyDataset
    /\ storage = NoBlob
    /\ trainingCounts = << >>
    /\ recogStatus = Status("Initializing...")
    /\ predictCall = NoCall
    /\ events = <<>>
    /\ framesHandled = 0
    /\ crashed = FALSE
    /\ consoleError = NoError
    /\ meetingCode = <<>>
    /\ inMeeting = TRUE
    /\ meetingId = userId
    /\ countsAlias = "copies"
    /\ MeetingIdle
    /\ speechSupported = TRUE
    /\ probe = NoProbe

\* The cleanup of the loop effect, then its next run: cancelAnimationFrame of
\* the frame requestRef names, if still waiting; detect() is called when the
\* camera is on and the model is there, and goes on to estimateHands.
LoopEffect(cameraOn, loaded) ==
    LET cancelled == IF requestRef THEN scheduled - 1 ELSE scheduled
    IN  /\ scheduled' = cancelled
        /\ requestRef' = FALSE
        /\ IF cameraOn /\ loaded
           THEN /\ estimating + cancelled < MaxLoops
                /\ estimating' = estimating + 1
           ELSE UNCHANGED estimating

\* loadHandpose resolves: handposeModelRef.current = model; setIsModelLoaded(true).
HandposeLoaded ==
    /\ ~isModelLoaded
    /\ isModelLoaded' = TRUE
    /\ LoopEffect(isCameraOn, TRUE)
    /\ UNCHANGED <<isCameraOn, lastGestureTime, now, helloCalls, signTimers,
                   detectedSign, captionVars, shareVars, nonMeetingVars>>

\* toggleCamera: the video track is switched and isCameraOn follows it.
ToggleCamera ==
    /\ isCameraOn' = ~isCameraOn
    /\ LoopEffect(~isCameraOn, isModelLoaded)
    /\ UNCHANGED <<isModelLoaded, lastGestureTime, now, helloCalls, signTimers,
                   detectedSign, captionVars, shareVars, nonMeetingVars>>

\* The animation frame of a waiting detect call: with the video not ready it
\* requests the next frame at once, otherwise it calls estimateHands.
AnimationFrame ==
    /\ scheduled > 0
    /\ \/ /\ requestRef' = TRUE
          /\ UNCHANGED <<scheduled, estimating>>
       \/ /\ scheduled' = scheduled - 1
          /\ estimating' = estimating + 1
          /\ requestRef' \in (IF scheduled > 1 THEN {requestRef, FALSE} ELSE {FALSE})
    /\ UNCHANGED <<isCameraOn, isModelLoaded, lastGestureTime, now, helloCalls,
                   signTimers, detectedSign, captionVars, shareVars, nonMeetingVars>>

\* estimateHands resolves (a rejection is caught and counts as no hand): the
\* open-palm heuristic, the debounce, and the request of the next frame.
EstimateResolves(predictions) ==
    /\ estimating > 0
    /\ estimating' = estimating - 1
    /\ scheduled' = scheduled + 1
    /\ requestRef' = TRUE
    /\ IF OpenPalm(predictions) /\ PastDebounce(now, lastGestureTime)
       THEN /\ detectedSign' = "Hello"
            /\ lastGestureTime' = now
            /\ helloCalls' = Append(helloCalls, now)
            /\ signTimers' = signTimers \cup {now + ClearAfterMs}
       ELSE UNCHANGED <<detectedSign, lastGestureTime, helloCalls, signTimers>>
    /\ UNCHANGED <<isCameraOn, isModelLoaded, now, captionVars, shareVars, nonMeetingVars>>

\* setTimeout(() => setDetectedSign(null), 2500)
SignTimeout ==
    /\ \E t \in signTimers : t <= now /\ signTimers' = signTimers \ {t}
    /\ detectedSign' = NoSign
    /\ UNCHANGED <<isCameraOn, isModelLoaded, estimating, scheduled, requestRef,
                   lastGestureTime, now, helloCalls, captionVars, shareVars, nonMeetingVars>>

\* Time passes, up to the next due timeout.
Advance ==
    /\ now < MaxTime
    /\ \A t \in signTimers : now < t
    /\ now' = now + TimeStep
    /\ UNCHANGED <<isCameraOn, isModelLoaded, estimating, scheduled, requestRef,
                   lastGestureTime, helloCalls, signTimers, detectedSign,
                   captionVars, shareVars, nonMeetingVars>>

NextGesture ==
    \/ HandposeLoaded
    \/ ToggleCamera
    \/ AnimationFrame
    \/ \E predictions \in Predictions : EstimateResolves(predictions)
    \/ SignTimeout
    \/ Advance

SpecGesture == InitGesture /\ [][NextGesture]_vars

---------------------------------------------------------------------------
(* README.md: the Meeting component with PeerJS.  toggleScreenShare swaps   *)
(* the video track of the local stream and of the call's sender;            *)
(* handleHandSignDetected is the listener given to ModelViewer.             *)

MaxShareRequests == 4
MaxPending == 2
MaxCaptionTimers == 2

CaptionMs == 5000

\* The labels the listener is called with.
DetectedTexts == {classes[1], classes[3]}

InitReadme ==
    /\ mounted = FALSE
    /\ isOpen = FALSE
    /\ hasListener = TRUE
    /\ isCameraReady = FALSE
    /\ isTraining = FALSE
    /\ trainingState = "idle"
    /\ countdown = CountdownStart
    /\ activeLabel = NoLabel
    /\ isTrainingRef = FALSE
    /\ trainingStateRef = "idle"
    /\ activeLabelRef = NoLabel
    /\ timers = <<>>
    /\ dataset = EmptyDataset
    /\ storage = NoBlob
    /\ trainingCounts = << >>
    /\ recogStatus = Status("Initializing...")
    /\ predictCall = NoCall
    /\ events = <<>>
    /\ framesHandled = 0
    /\ crashed = FALSE
    /\ consoleError = NoError
    /\ meetingCode = <<>>
    /\ inMeeting = TRUE
    /\ meetingId = userId
    /\ countsAlias = "copies"
    /\ MeetingIdle
    /\ speechSupported = TRUE
    /\ probe = NoProbe

readmeOtherVars ==
    <<recognitions, silenceTimer, detectedSign, speechSupported, gestureVarsButNow,
      nonMeetingVars>>

\* The body of toggleScreenShare up to its await, for the isScreenSharing its
\* closure holds.
ToggleScreenShare(sharing) ==
    IF sharing
    THEN /\ pendingCamera + pendingDisplay < MaxPending
         /\ pendingCamera' = pendingCamera + 1
         /\ UNCHANGED <<pendingDisplay, displayRequests>>
    ELSE /\ displayRequests < MaxShareRequests
         /\ pendingDisplay' = pendingDisplay + 1
         /\ displayRequests' = displayRequests + 1
         /\ UNCHANGED pendingCamera

\* The isScreenSharing of the closure the onended handler calls: the handler is
\* `() => toggleScreenShare()` of the render whose toggleScreenShare was
\* running when it was attached, and that one ran its else branch.
OnEndedSees == FALSE

\* The screen-share button: toggleScreenShare of the current render.
ScreenShareClick ==
    /\ ToggleScreenShare(isScreenSharing)
    /\ UNCHANGED <<isScreenSharing, localTrack, outgoingTrack, orphanScreens,
                   captionTimers, isCaptionsOn, transcript, now, readmeOtherVars>>

\* getDisplayMedia resolves: the screen track replaces the video track of the
\* sender and of the local stream (which is removed, not stopped), onended is
\* attached, setIsScreenSharing(true).
DisplayGranted ==
    /\ pendingDisplay > 0
    /\ pendingDisplay' = pendingDisplay - 1
    /\ localTrack' = ScreenTrack
    /\ outgoingTrack' = ScreenTrack
    /\ orphanScreens' = IF localTrack = ScreenTrack THEN orphanScreens + 1
                        ELSE orphanScreens
    /\ isScreenSharing' = TRUE
    /\ UNCHANGED <<pendingCamera, displayRequests, captionTimers, isCaptionsOn,
                   transcript, now, readmeOtherVars>>

\* getDisplayMedia rejects (the picker was dismissed): console.error.
DisplayDenied ==
    /\ pendingDisplay > 0
    /\ pendingDisplay' = pendingDisplay - 1
    /\ UNCHANGED <<isScreenSharing, localTrack, outgoingTrack, pendingCamera,
                   orphanScreens, displayRequests, captionTimers, isCaptionsOn,
                   transcript, now, readmeOtherVars>>

\* getUserMedia({video: true}) resolves: the camera track replaces the video
\* track of the sender and of the local stream, setIsScreenSharing(false).
CameraGranted ==
    /\ pendingCamera > 0
    /\ pendingCamera' = pendingCamera - 1
    /\ localTrack' = CameraTrack
    /\ outgoingTrack' = CameraTrack
    /\ orphanScreens' = IF localTrack = ScreenTrack THEN orphanScreens + 1
                        ELSE orphanScreens
    /\ isScreenSharing' = FALSE
    /\ UNCHANGED <<pendingDisplay, displayRequests, captionTimers, isCaptionsOn,
                   transcript, now, readmeOtherVars>>

\* getUserMedia rejects: the branch has no try/catch, nothing is set.
CameraDenied ==
    /\ pendingCamera > 0
    /\ pendingCamera' = pendingCamera - 1
    /\ UNCHANGED <<isScreenSharing, localTrack, outgoingTrack, pendingDisplay,
                   orphanScreens, displayRequests, captionTimers, isCaptionsOn,
                   transcript, now, readmeOtherVars>>

\* The user stops sharing from the browser: the shared track ends and its
\* onended handler runs.
ScreenTrackEnded ==
    /\ localTrack = ScreenTrack
    /\ localTrack' = [localTrack EXCEPT !.ended = TRUE]
    /\ outgoingTrack' = [outgoingTrack EXCEPT !.ended = TRUE]
    /\ ToggleScreenShare(OnEndedSees)
    /\ UNCHANGED <<isScreenSharing, orphanScreens, captionTimers, isCaptionsOn,
                   transcript, now, readmeOtherVars>>

\* The same for a screen track that is no longer in the stream.
OrphanTrackEnded ==
    /\ orphanScreens > 0
    /\ orphanScreens' = orphanScreens - 1
    /\ ToggleScreenShare(OnEndedSees)
    /\ UNCHANGED <<isScreenSharing, localTrack, outgoingTrack, captionTimers,
                   isCaptionsOn, transcript, now, readmeOtherVars>>

\* handleHandSignDetected(signText)
HandleHandSignDetected(signText) ==
    /\ Cardinality(captionTimers \cup {now + CaptionMs}) <= MaxCaptionTimers
    /\ transcript' = Caption("hand", signText)
    /\ captionTimers' = captionTimers \cup {now + CaptionMs}
    /\ UNCHANGED <<isScreenSharing, localTrack, outgoingTrack, pendingDisplay,
                   pendingCamera, orphanScreens, displayRequests, isCaptionsOn,
                   now, readmeOtherVars>>

\* setTimeout(() => setTranscript(''), 5000)
CaptionTimeout ==
    /\ \E t \in captionTimers : t <= now /\ captionTimers' = captionTimers \ {t}
    /\ transcript' = NoCaption
    /\ UNCHANGED <<isScreenSharing, localTrack, outgoingTrack, pendingDisplay,
                   pendingCamera, orphanScreens, displayRequests, isCaptionsOn,
                   now, readmeOtherVars>>

\* toggleCaptions of the README component.
ReadmeToggleCaptions ==
    /\ isCaptionsOn' = ~isCaptionsOn
    /\ transcript' = IF ~isCaptionsOn THEN NoCaption ELSE transcript
    /\ UNCHANGED <<shareVars, now, readmeOtherVars>>

\* Time passes, up to the next due timeout.
ReadmeAdvance ==
    /\ now < MaxTime
    /\ \A t \in captionTimers : now < t
    /\ now' = now + TimeStep
    /\ UNCHANGED <<shareVars, isCaptionsOn, transcript, readmeOtherVars>>

NextShare ==
    \/ ScreenShareClick
    \/ DisplayGranted
    \/ DisplayDenied
    \/ CameraGranted
    \/ CameraDenied
    \/ ScreenTrackEnded
    \/ OrphanTrackEnded

SpecShare == InitReadme /\ [][NextShare]_vars

NextHandSigns ==
    \/ \E signText \in DetectedTexts : HandleHandSignDetected(signText)
    \/ CaptionTimeout
    \/ ReadmeToggleCaptions
    \/ ReadmeAdvance

SpecHandSigns == InitReadme /\ [][NextHandSigns]_vars

---------------------------------------------------------------------------
(* The counter object behind trainingCounts.  Spec takes the library to     *)
(* return copies; here it may as well return its own counter object, as     *)
(* ISLClassifier.getExampleCounts and both setTrainingCounts(...) calls     *)
(* pass the returned object on without copying it.                          *)

InitCounts ==
    /\ mounted = FALSE
    /\ isOpen = FALSE
    /\ hasListener = FALSE
    /\ isCameraReady = FALSE
    /\ isTraining = FALSE
    /\ trainingState = "idle"
    /\ countdown = CountdownStart
    /\ activeLabel = NoLabel
    /\ isTrainingRef = FALSE
    /\ trainingStateRef = "idle"
    /\ activeLabelRef = NoLabel
    /\ timers = <<>>
    /\ dataset = EmptyDataset
    /\ storage \in {NoBlob} \cup { Blob(d) : d \in StoredDatasets }
    /\ trainingCounts = << >>
    /\ recogStatus = Status("Initializing...")
    /\ predictCall = NoCall
    /\ events = <<>>
    /\ framesHandled = 0
    /\ crashed = FALSE
    /\ consoleError = NoError
    /\ meetingCode = <<>>
    /\ inMeeting = FALSE
    /\ meetingId = <<>>
    /\ countsAlias \in {"copies", "own"}
    /\ MeetingIdle
    /\ speechSupported = TRUE
    /\ probe = NoProbe

SpecCounts == InitCounts /\ [][Next]_vars

---------------------------------------------------------------------------
(* Claims *)

\* C1: startTrainingSession(L) issued while the session is in Countdown or
\* Capturing, for any armed label, changes nothing: trainingState, activeLabel and
\* countdown stay as they are and no timer is created.
C1_StartWhileBusyIsNoOp ==
    [][\A label \in SessionLabels :
          (trainingState # "idle" /\ StartTrainingSession(label))
          => /\ trainingState' = trainingState
             /\ activeLabel' = activeLabel
             /\ countdown' = countdown
             /\ timers' = timers]_vars

\* A session is capturing for Hello and the button of Yes can be pressed.
C1_Witness ==
    /\ trainingState = "capturing"
    /\ activeLabel = classes[1]
    /\ ENABLED StartTrainingSession(classes[3])

\* C2: the session state changes only Idle->Countdown by startTrainingSession,
\* Countdown->Capturing by the tick that brings the count to zero, and
\* Capturing->Idle by the capture timeout; no other step changes it.
C2_OnlySessionTransitions ==
    [][trainingState' # trainingState =>
          \/ /\ trainingState = "idle" /\ trainingState' = "countdown"
             /\ \E label \in SessionLabels : StartTrainingSession(label)
          \/ /\ trainingState = "countdown" /\ trainingState' = "capturing"
             /\ countdown' = 0
             /\ \E i \in 1..Len(timers) : Tick(i)
          \/ /\ trainingState = "capturing" /\ trainingState' = "idle"
             /\ \E i \in 1..Len(timers) : CaptureTimeout(i)]_vars

\* A session has run through countdown and capture and is over.
C2_Witness ==
    /\ trainingState = "idle"
    /\ recogStatus = Status("Training Complete!")
    /\ timers = <<>>

\* C3: with timers firing, every session that has started comes back to Idle with
\* no active label and no timer left.
C3_SessionReturnsToIdle ==
    (trainingState = "countdown" /\ activeLabel # NoLabel)
        ~> (trainingState = "idle" /\ activeLabel = NoLabel /\ timers = <<>>)

\* A second session is counting down after a first one completed with examples.
C3_Witness ==
    /\ trainingState = "countdown"
    /\ countdown = 1
    /\ NumExamples(dataset) = MaxExamples
    /\ activeLabel = classes[3]

\* C4 (as claimed): classifier.predict is called for a frame only while the
\* session is Idle.
C4_PredictOnlyWhenIdle ==
    [][(predictCall.state # "pending" /\ predictCall'.state = "pending")
          => trainingState = "idle"]_vars

\* C5 (as claimed): a frame adds an example only when, as the frame is handled,
\* the mode is Training, the session is Capturing and a label is armed.
C5_AddOnlyWhenCapturing ==
    [][(framesHandled' # framesHandled /\ dataset' # dataset)
          => (isTraining /\ trainingState = "capturing" /\ activeLabel # NoLabel)]_vars

\* C6 (as claimed): every frame handled while the mode is Training and the session
\* is Capturing adds exactly one example under activeLabel and raises the UI
\* counter of activeLabel by one.
C6_EveryCapturingFrameAdds ==
    [][(framesHandled' # framesHandled /\ isTraining /\ trainingState = "capturing")
          => /\ \E features \in ProbeVectors :
                   dataset' = AddExample(dataset, features, activeLabel)
             /\ CountOf(trainingCounts', activeLabel)
                  = CountOf(trainingCounts, activeLabel) + 1]_vars

\* C7: after N addExample(_, L) calls on any starting dataset the count of L is
\* its starting count plus N and the count of every other label is unchanged.
C7_CountsGrowByN ==
    \A i \in 1..Len(classes) :
        CountOf(GetExampleCounts(dataset), classes[i])
          = CountOf(probe.base, classes[i]) + (IF classes[i] = probe.label THEN probe.n ELSE 0)

\* Several examples were added to a label that already had some, beside another label.
C7_Witness ==
    /\ probe.n >= 2
    /\ CountOf(probe.base, probe.label) > 0
    /\ \E l \in DOMAIN probe.base : l # probe.label

C9_ResultOnlyAboveThreshold ==
    (predictCall.state = "pending" /\ predictCall.consulted)
        => /\ (predictCall.result # NullResult) <=> (predictCall.top.confidence > 800)
           /\ predictCall.result # NullResult =>
                 /\ predictCall.result = predictCall.top
                 /\ predictCall.result.confidence > 800
                 /\ predictCall.result.confidence <= 1000

\* The top label came with a confidence of exactly 0.8 and predict returned none.
C9_Witness ==
    /\ predictCall.state = "pending"
    /\ predictCall.consulted
    /\ predictCall.top.confidence = 800
    /\ predictCall.top.label # NoLabel
    /\ predictCall.result = NullResult

\* C10: when a predict call resolves, a result that is not none is shown as
\* detected and sent once to the listener if one is registered, also when the
\* previous event carried the same label; a none result sends nothing; and the
\* listener is called at no other step.
C10_OneEventPerResult ==
    [][IF predictCall.state = "pending" /\ predictCall'.state # "pending"
       THEN IF predictCall.result # NullResult
            THEN /\ recogStatus' = [kind |-> "Detected", label |-> predictCall.result.label]
                 /\ events' = IF hasListener
                              THEN Append(events, predictCall.result.label)
                              ELSE events
            ELSE events' = events /\ recogStatus' = recogStatus
       ELSE events' = events]_vars

\* Two frames in a row gave the same result and each sent its event.
C10_Witness ==
    /\ Len(events) = 2
    /\ events[1] = events[2]

\* C11: the string save() returns, loaded into a fresh classifier, gives the same
\* getExampleCounts() and the same predict() outcomes for every probe vector as
\* the classifier that saved it; loaded into the classifier that saved it, it
\* leaves the dataset as it was.
C11_SaveLoadRoundTrip ==
    storage = Blob(dataset) =>
        LET fresh == Load(EmptyDataset, storage)
        IN  /\ GetExampleCounts(fresh) = GetExampleCounts(dataset)
            /\ \A v \in ProbeVectors : Predict(fresh, v) = Predict(dataset, v)
            /\ Load(dataset, storage) = dataset

\* A classifier with two labels and an added example saved, then loaded its own
\* string.
C11_Witness ==
    /\ storage = Blob(dataset)
    /\ probe.loads = 1 /\ probe.error = NoError /\ probe.before = dataset
    /\ probe.n > 0
    /\ GetNumClasses(dataset) = 2
    /\ NumExamples(dataset) >= 3

\* C12 (as claimed): load of a string in which the array of some label is no
\* whole number of feature vectors fails with the error MalformedPersistedModel
\* and leaves the dataset, and so the counts, as they were.
C12_MalformedLoadFailsDistinctly ==
    [][(LoadCall /\ IsMalformed(storage))
          => /\ probe'.error = "MalformedPersistedModel"
             /\ dataset' = dataset
             /\ GetExampleCounts(dataset') = GetExampleCounts(dataset)]_vars

\* C13: the Clear button leaves the dataset empty, so that predict returns none
\* for every vector, the UI counters empty and no stored model; and opening the
\* viewer with no stored model loads nothing, so the cleared data stays away.
C13_ClearEmptiesAndStaysCleared ==
    [][/\ ClearClick =>
             /\ dataset' = EmptyDataset
             /\ trainingCounts' = << >>
             /\ ~storage'.present
             /\ \A v \in ProbeVectors :
                   \A call \in Predict(dataset', v) : call.result = NullResult
       /\ (OpenViewer /\ ~storage.present) =>
             /\ dataset' = dataset
             /\ trainingCounts' = trainingCounts]_vars

\* Training data was cleared and the viewer closed: it can be opened again on an
\* empty classifier with no stored model.
C13_Witness ==
    /\ dataset = EmptyDataset
    /\ trainingCounts = << >>
    /\ ~storage.present
    /\ isTraining
    /\ ENABLED OpenViewer

\* C14 (as claimed): once the component is mounted the dataset changes only by a
\* frame that adds one example or by the Clear button; opening, closing, the mode
\* toggle, Save, Download and predicting frames leave it as it is.
C14_DatasetChangesOnlyByAddOrClear ==
    [][(mounted /\ dataset' # dataset)
          => \/ /\ \E results \in Frames : OnResults(results)
                /\ \E l \in SessionLabels : \E v \in ProbeVectors :
                      dataset' = AddExample(dataset, v, l)
             \/ ClearClick]_vars

\* C15 (as claimed): a load that fails, at startup or when the viewer is opened,
\* reaches the caller as an error: the exception leaves the effect, and the
\* program does not go on as if the model were loaded.
C15_LoadFailureSurfaced ==
    [][/\ (StartupLoad /\ LoadError(IF storage.present THEN storage ELSE preTrainedModel) # NoError)
             => crashed'
       /\ (OpenViewer /\ LoadError(storage) # NoError)
             => crashed']_vars

\* C16 (as claimed): a frame with no hand, with a hand whose handedness entry is
\* missing or with a landmark list of the wrong length is skipped: the handler
\* leaves the dataset, the UI counters and the session state as they are.
C16_BadFrameIsSkipped ==
    [][(\E results \in BadFrames \cup {[hands |-> <<>>]} : OnResults(results))
          => UNCHANGED <<dataset, trainingCounts, isTraining, trainingState,
                         countdown, activeLabel, timers>>]_vars

\* C18: for a frame with one Right hand the extracted vector is zero at [0, 63)
\* and holds the hand's wrist-relative landmarks at [63, 126); for a frame with
\* one Left hand it holds them at [0, 63) and is zero at [63, 126).
C18_OneHandFillsItsSlot ==
    (probe.done /\ Len(probe.frame.hands) = 1)
        => LET hand == probe.frame.hands[1]
           IN  /\ Len(probe.vector) = FeatureLen
               /\ hand.label = "Right"
                    => /\ SlotIsZero(probe.vector, 0)
                       /\ SlotHolds(probe.vector, SlotLen, hand)
               /\ hand.label = "Left"
                    => /\ SlotHolds(probe.vector, 0, hand)
                       /\ SlotIsZero(probe.vector, SlotLen)

\* A frame with one Right hand whose wrist is off the origin was extracted.
C18_Witness ==
    /\ probe.done
    /\ Len(probe.frame.hands) = 1
    /\ probe.frame.hands[1] = Hand("Right", <<2, 0, 1>>, 2)
    /\ probe.vector # Zeros

\* C19 (as claimed): for a frame with a Left and a Right hand, in either order,
\* the vector holds the Left hand's landmarks relative to the Left wrist at
\* [0, 63) and the Right hand's relative to the Right wrist at [63, 126).
C19_TwoHandsFillBothSlots ==
    (probe.done /\ Len(probe.frame.hands) = 2
      /\ probe.frame.hands[1].label # probe.frame.hands[2].label)
        => \A j \in 1..2 :
              SlotHolds(probe.vector, SlotOffset(probe.frame.hands[j].label),
                        probe.frame.hands[j])

\* C20 (as claimed): for a frame with two hands of the same handedness the slot
\* of that handedness holds the wrist-relative landmarks of the second hand and
\* the other slot is zero.
C20_SecondSameHandOverwrites ==
    (probe.done /\ Len(probe.frame.hands) = 2
      /\ probe.frame.hands[1].label = probe.frame.hands[2].label)
        => /\ SlotHolds(probe.vector, SlotOffset(probe.frame.hands[2].label),
                        probe.frame.hands[2])
           /\ SlotIsZero(probe.vector, OtherSlotOffset(probe.frame.hands[2].label))

\* C21 (as claimed): adding the same offset (dx, dy, dz) to every landmark of an
\* observation gives the identical feature vector, and the wrist entries of the
\* hand's slot are zero.
C21_TranslationGivesIdenticalVector ==
    probe.done =>
        /\ WristEntriesZero(probe.frame, probe.vector)
        /\ \A d \in TranslationOffsets :
              FrameVector(Translate(probe.frame, d)) = probe.vector

\* C21 (amended): adding the same offset to every landmark gives the identical
\* feature vector whenever none of the additions is rounded, and the wrist
\* entries of the hand's slot are zero before and after any offset.
C21_ExactTranslationGivesIdenticalVector ==
    probe.done =>
        /\ WristEntriesZero(probe.frame, probe.vector)
        /\ \A d \in TranslationOffsets :
              /\ WristEntriesZero(probe.frame, FrameVector(Translate(probe.frame, d)))
              /\ ExactShift(probe.frame, d)
                   => FrameVector(Translate(probe.frame, d)) = probe.vector

\* A hand away from the origin was extracted; one offset moves it exactly and
\* another one is rounded.
C21_Witness ==
    /\ probe.done
    /\ Len(probe.frame.hands) = 1
    /\ probe.frame.hands[1] = Hand("Left", <<0, 3, 2>>, 2)
    /\ probe.vector # Zeros
    /\ ExactShift(probe.frame, <<1, 1, 1>>)
    /\ ~ExactShift(probe.frame, <<Pow2(MantissaBits) - 1, 0, 3>>)

\* C22: for every frame of zero, one or two hands of either handedness the
\* vector built for addExample and predict has exactly 126 entries, and the slot
\* of a handedness that no hand of the frame has is zero.
C22_VectorHas126Entries ==
    probe.done =>
        /\ Len(probe.vector) = FeatureLen
        /\ DOMAIN probe.vector = 1..FeatureLen
        /\ \A label \in {"Left", "Right"} :
              (\A j \in 1..Len(probe.frame.hands) : probe.frame.hands[j].label # label)
                 => SlotIsZero(probe.vector, SlotOffset(label))

\* A frame with two Right hands was extracted: the Left slot has no hand.
C22_Witness ==
    /\ probe.done
    /\ Len(probe.frame.hands) = 2
    /\ probe.frame.hands[1].label = "Right"
    /\ probe.frame.hands[2].label = "Right"
    /\ probe.vector # Zeros

\* C23: in the string save() returns the array of each label has a length that
\* is a multiple of 126, the length divided by 126 is getExampleCounts() of the
\* label, and every label that has an example is in the string.
C23_SavedLengthsAreCounts ==
    storage = Blob(dataset) =>
        /\ \A l \in DOMAIN GetExampleCounts(dataset) :
              GetExampleCounts(dataset)[l] >= 1 => l \in DOMAIN storage.data
        /\ \A l \in DOMAIN storage.data :
              /\ Len(storage.data[l]) % FeatureLen = 0
              /\ l \in DOMAIN GetExampleCounts(dataset)
              /\ Len(storage.data[l]) \div FeatureLen = GetExampleCounts(dataset)[l]

\* A classifier with three examples under one label and one under another was
\* saved.
C23_Witness ==
    /\ storage = Blob(dataset)
    /\ \E l \in DOMAIN dataset : Len(dataset[l]) = 3
    /\ \E l \in DOMAIN dataset : Len(dataset[l]) = 1

\* C24 (as claimed): every label that has a stored example and every label sent
\* in a detection event is one of the classes of the classifier.
C24_LabelsInClassList ==
    /\ \A l \in DOMAIN dataset : \E i \in 1..Len(classes) : classes[i] = l
    /\ \A e \in 1..Len(events) : \E i \in 1..Len(classes) : classes[i] = events[e]

\* C25: the countdown is 3 when a session starts, goes down by exactly 1 at each
\* tick, is 1, 2 or 3 whenever the state is Countdown, is never negative, and the
\* state becomes Capturing at exactly the tick that brings it to 0.
C25_CountdownValues ==
    [][/\ (trainingState = "idle" /\ \E label \in SessionLabels : StartTrainingSession(label))
             => countdown' = 3
       /\ (\E i \in 1..Len(timers) : Tick(i))
             => /\ trainingState = "countdown"
                /\ countdown' = countdown - 1
                /\ (trainingState' = "capturing") <=> (countdown' = 0)
       /\ (trainingState # "capturing" /\ trainingState' = "capturing")
             => /\ countdown' = 0
                /\ \E i \in 1..Len(timers) : Tick(i)
       /\ trainingState' = "countdown" => countdown' \in {1, 2, 3}
       /\ countdown' >= 0]_vars

\* The last tick has brought the countdown to 0 and the capture runs.
C25_Witness ==
    /\ trainingState = "capturing"
    /\ countdown = 0
    /\ Len(timers) = 1
    /\ timers[1].kind = "timeout"

\* C27: the meeting-code field never holds more than 6 characters, whatever is
\* typed and pasted; a paste leaves the first 6 alphanumeric characters of the
\* pasted text, in upper case, and nothing else; and the Join button and the
\* Enter key call onJoinMeeting only with a code of exactly 6 characters.
C27_JoinOnlyWithSixChars ==
    [][/\ Len(meetingCode') <= 6
       /\ \A pastedText \in PastedTexts :
             HandlePaste(pastedText) =>
                LET kept == SelectSeq(pastedText, IsAlphanumeric)
                IN  /\ Len(meetingCode') = (IF Len(kept) < 6 THEN Len(kept) ELSE 6)
                    /\ \A k \in 1..Len(meetingCode') :
                          /\ meetingCode'[k] \in {"A", "S", "7"}
                          /\ <<meetingCode'[k]>> = UpperOf(kept[k])
       /\ ((JoinClick \/ KeyPressEnter) /\ inMeeting')
             => /\ Len(meetingId') = 6
                /\ meetingId' = meetingCode]_vars

\* A meeting was joined with a typed or pasted code, not with the user's own ID.
C27_Witness ==
    /\ inMeeting
    /\ Len(meetingId) = 6
    /\ meetingId # userId

\* C28: at most one timer of a training session (the countdown interval or the
\* capture timeout) is pending, and one is pending exactly when the session is
\* not Idle: the interval during Countdown, the timeout during Capturing.
C28_OneSessionTimer ==
    /\ Len(timers) <= 1
    /\ (Len(timers) = 1) <=> (trainingState # "idle")
    /\ trainingState = "countdown" => timers[1].kind = "interval"
    /\ trainingState = "capturing" => timers[1].kind = "timeout"

\* A countdown is in its second tick and a label button can be pressed again.
C28_Witness ==
    /\ trainingState = "countdown"
    /\ countdown = 2
    /\ Len(timers) = 1
    /\ ENABLED StartTrainingSession(classes[1])

\* C29: activeLabel is set exactly when the session state is Countdown or
\* Capturing, and is none in Idle.
C29_ActiveLabelIffBusy ==
    (activeLabel # NoLabel) <=> (trainingState \in {"countdown", "capturing"})

\* A session is over, the label is cleared, and the ref read by the frame
\* handler still holds it.
C29_Witness ==
    /\ trainingState = "idle"
    /\ activeLabel = NoLabel
    /\ activeLabelRef # NoLabel
    /\ recogStatus = Status("Training Complete!")

\* C30: from an accepted startTrainingSession(L) to the next return to Idle the
\* armed label stays L, and every example a frame adds in between is stored
\* under L and under no other label.
C30_ArmedLabelFixed ==
    [][/\ (trainingState # "idle" /\ trainingState' # "idle")
             => activeLabel' = activeLabel
       /\ (trainingState # "idle" /\ framesHandled' # framesHandled /\ dataset' # dataset)
             => /\ \E v \in ProbeVectors : dataset' = AddExample(dataset, v, activeLabel)
                /\ \A l \in DOMAIN dataset' :
                      l # activeLabel => (l \in DOMAIN dataset /\ dataset'[l] = dataset[l])]_vars

\* A session for Yes captures: an example of Yes has just been stored.
C30_Witness ==
    /\ trainingState = "capturing"
    /\ activeLabel = classes[3]
    /\ classes[3] \in DOMAIN dataset
    /\ recogStatus = [kind |-> "Training...", label |-> classes[3]]


\* C31: the per-label counter shown in the UI (trainingCounts) equals
\* classifier.getExampleCounts() for every label, a missing entry counting as 0,
\* after any sequence of startup load, viewer open/close, captured frames, save
\* and clear.
C31_UICountsMatchClassifier ==
    mounted =>
        \A i \in 1..Len(classes) :
            CountOf(trainingCounts, classes[i])
                = CountOf(GetExampleCounts(dataset), classes[i])

\* C32: a detection event is never delivered to the listener while the mode is
\* Training; a predict call still pending when the mode is switched to Training
\* does not call onHandSignDetected when it resolves.
C32_NoEventWhileTraining ==
    [][events' # events => ~isTraining']_vars

\* C33: at startup the model is loaded from exactly one source, local storage
\* first: when a saved model exists the dataset after startup is the content of
\* the saved model and not of the bundled one; otherwise it is the content of
\* the bundled model.
C33_StartupLoadsOneSource ==
    [][(~mounted /\ mounted') =>
          Blob(dataset') = (IF storage.present THEN storage ELSE preTrainedModel)]_vars

C33_Witness ==
    /\ mounted /\ ~isOpen
    /\ storage.present /\ storage # preTrainedModel
    /\ Blob(dataset) = storage

\* C34: after captions are turned off, speech recognition is not started again
\* until captions are turned on again; the restart scheduled 300 ms after an
\* unexpected end starts nothing once the captions effect has been cleaned up.
\* A recognition is started in a step when it runs after the step and did not
\* run (or did not exist) before it.
C34_NoStartWhileCaptionsOff ==
    [][(\E i \in DOMAIN recognitions' :
            /\ recognitions'[i].running
            /\ i \in DOMAIN recognitions => ~recognitions[i].running)
        => isCaptionsOn']_vars

\* C37: the heuristic gesture loop reports 'Hello' at most once per 2000 ms: two
\* consecutive setDetectedSign('Hello') calls of the loop are more than 2000 ms
\* apart, however many qualifying frames arrive in between.
C37_HelloAtMostOncePerDebounce ==
    \A k \in 1..(Len(helloCalls) - 1) : helloCalls[k + 1] - helloCalls[k] > DebounceMs

\* A second report has been made, and a qualifying frame that came within
\* 2000 ms of it is just being answered without a report.
C37_Witness ==
    /\ Len(helloCalls) >= 2
    /\ now - lastGestureTime <= DebounceMs
    /\ now > lastGestureTime
    /\ estimating > 0

\* C35: when the shared screen track ends (the user stops sharing from the
\* browser) while isScreenSharing is true, screen sharing stops and no new
\* screen-capture request is made: the step makes no getDisplayMedia call, and
\* once the calls it made have settled isScreenSharing is false with a camera
\* track as the local and outgoing video track.
C35_TrackEndStopsSharing ==
    [][(isScreenSharing /\ localTrack = ScreenTrack /\ localTrack'.ended) =>
          /\ displayRequests' = displayRequests
          /\ pendingCamera' = pendingCamera + 1]_vars

\* C36: the caption set by a hand-sign detection stays until 5 seconds after
\* that detection unless a newer detection replaces it: a clear timer that
\* blanks a caption is the timer of the latest detection, none of a later
\* detection is still pending.
C36_TimerBlanksOnlyItsOwnCaption ==
    [][(captionTimers' # captionTimers /\ transcript # NoCaption
            /\ transcript' = NoCaption)
        => captionTimers' = {}]_vars
====
